---- MODULE Spec2Model ----
(***************************************************************************)
(* A model of the world core of MClone (src/world.py, driven by the frame  *)
(* loop of src/game.py): the block map, the chunk index, the drawn set,    *)
(* the renderer's vertex lists, the two work queues and the chunk          *)
(* streamer.                                                               *)
(*                                                                         *)
(* Grid positions are integer triples <<x, y, z>>.  Continuous coordinates *)
(* (a player position) are fixed-point integers, Scale units to a block.   *)
(* The handlers of World are state transformers over a record w holding    *)
(* the fields of the World object; each action applies one handler to the  *)
(* current state.                                                          *)
(***************************************************************************)
EXTENDS Integers, Sequences, FiniteSets, TLC

VARIABLES
    blocks,            \* World.blocks: position -> block type
    drawn_blocks,      \* World.drawn_blocks: position -> block type
    vertex_lists,      \* World.vertex_lists: positions holding a live mesh
    chunks,            \* World.chunks: chunk -> list of positions
    chunks_generated,  \* World.chunks_generated
    current_chunk,     \* World.current_chunk
    drawing_queue,     \* World.drawing_queue
    generation_queue,  \* World.generation_queue
    terrain,           \* the noise field fbm evaluates (fixed for a run)
    enqueued,          \* history: every item ever appended, per queue
    executed,          \* history: every item executed, in execution order
    last_op,           \* history: the handler that ran last, and its input
    raised,            \* whether a handler raised an exception
    mesh_fault,        \* history: whether a mesh was ever asked for where one
                       \* was live or no block was, or deleted where none was
    calls_left,        \* how many more place, clear and chunk-changing calls
                       \* the run may make
    pc,                \* Game.update: the statement the frame loop is at
    approx_time_left   \* Game.update: the rounds the frame's time allows

vars == << blocks, drawn_blocks, vertex_lists, chunks, chunks_generated,
           current_chunk, drawing_queue, generation_queue, terrain,
           enqueued, executed, last_op, raised, mesh_fault, calls_left,
           pc, approx_time_left >>

----------------------------------------------------------------------------
(* Sizes.  CHUNK_SIZE, num_adjacent_drawn and gen_margin are the program's *)
(* 16, 4 and 3, scaled down so that a chunk transition stays explorable.   *)

CHUNK_SIZE == 1
num_adjacent_drawn == 0
gen_margin == 1
max_height == 10
randint_lo == 20
randint_hi == 30

MaxCalls == 3
MaxRounds == 3
MaxQueue == 9

Scale == 10 * 10
Inf == 1000000

BlockTypes == {"Grass", "Sand"}

\* Where the player places and removes blocks, and where the viewpoint is.
EditPositions == { << 0, -1, 0 >>, << 1, 1, 0 >>, << 0, 0, 0 >> }
ViewPositions == { << 40, 50 * Scale, 0 >>, << 60, 50 * Scale, 0 >> }

\* The noise fields and random generators a run may have.
Terrains ==
    { [kind |-> "flat", level |-> -30, seed |-> 0],
      [kind |-> "rough", level |-> 10, seed |-> 1] }

NoSnapshot == [valid |-> FALSE, urgent |-> TRUE, nb_occupied |-> {}, nb_drawn |-> {}]

NoOp ==
    [ op |-> "init", position |-> << 0, 0, 0 >>, block |-> "none", urgent |-> TRUE,
      was_occupied |-> FALSE, old_block |-> "none", before_place |-> NoSnapshot,
      changed |-> FALSE, to_draw |-> {}, to_undraw |-> {} ]

----------------------------------------------------------------------------
(* Sequence helpers.                                                       *)

RECURSIVE RemoveFirst(_, _)
RemoveFirst(s, e) ==
    IF s = << >> THEN << >>
    ELSE IF Head(s) = e THEN Tail(s)
    ELSE << Head(s) >> \o RemoveFirst(Tail(s), e)

Count(s, e) == Cardinality({i \in 1..Len(s) : s[i] = e})

Restrict(f, S) == [k \in S |-> f[k]]

----------------------------------------------------------------------------
(* utils.py                                                                *)

clamp(minimum, x, maximum) ==
    LET m == IF x < maximum THEN x ELSE maximum
    IN  IF minimum > m THEN minimum ELSE m

\* int(round(v)) of Python 2: halves round away from zero.
round_int(v) ==
    IF v >= 0 THEN (2 * v + Scale) \div (2 * Scale)
    ELSE -((2 * (-v) + Scale) \div (2 * Scale))

discretize(position) ==
    << round_int(position[1]), round_int(position[2]), round_int(position[3]) >>

\* An integer grid position as the number Python sees.
AsReal(p) == << p[1] * Scale, p[2] * Scale, p[3] * Scale >>

----------------------------------------------------------------------------
(* World: queries.                                                         *)

neighbors(position) ==
    << << position[1] - 1, position[2], position[3] >>,
       << position[1] + 1, position[2], position[3] >>,
       << position[1], position[2] - 1, position[3] >>,
       << position[1], position[2] + 1, position[3] >>,
       << position[1], position[2], position[3] - 1 >>,
       << position[1], position[2], position[3] + 1 >> >>

exposed(w, position) ==
    \E i \in 1..6 : neighbors(position)[i] \notin DOMAIN w.blocks

\* Python's x/size on integers rounds down; this one rounds towards zero.
chunk_position_truncating(size, position) ==
    LET d == discretize(position)
        quotient(v) == IF v < 0 THEN -((-v) \div size) ELSE v \div size
    IN  << quotient(d[1]), 0, quotient(d[3]) >>

\* chunk_position of a World whose CHUNK_SIZE is size.
chunk_position_in(size, position) ==
    LET d == discretize(position)
    IN  << d[1] \div size, 0, d[3] \div size >>

chunk_position(position) == chunk_position_in(CHUNK_SIZE, position)

occupied(w, position) == discretize(position) \in DOMAIN w.blocks

\* max_overlap = 0.1
max_overlap == Scale \div 10

\* new_pos of collides: disc_pos moved one cell along the axis, dy cells down.
new_pos(disc_pos, axis, direction, dy) ==
    [ [disc_pos EXCEPT ![axis] = @ + direction] EXCEPT ![2] = @ - dy ]

\* One pass of the body of the two outer loops of collides, as collide
\* but looking at the topmost cell only.
collide_top_only(w, position, disc_pos, height, axis, direction) ==
    LET overlap == (position[axis] - disc_pos[axis] * Scale) * direction
    IN  IF overlap < max_overlap THEN position
        ELSE IF height > 0 /\ new_pos(disc_pos, axis, direction, 0) \in DOMAIN w.blocks
        THEN [position EXCEPT ![axis] = @ - (overlap - max_overlap) * direction]
        ELSE position

\* One pass of the body of the two outer loops of collides.
collide(w, position, disc_pos, height, axis, direction) ==
    LET overlap == (position[axis] - disc_pos[axis] * Scale) * direction
    IN  IF overlap < max_overlap THEN position
        ELSE IF \E dy \in 0..(height - 1) :
                    new_pos(disc_pos, axis, direction, dy) \in DOMAIN w.blocks
        THEN [position EXCEPT ![axis] = @ - (overlap - max_overlap) * direction]
        ELSE position

\* The passes in the order of the loops: axis 0, 1, 2 (here 1, 2, 3), and
\* for each the directions -1 and 1.
RECURSIVE collide_from(_, _, _, _, _)
collide_from(w, position, disc_pos, height, i) ==
    IF i > 6 THEN position
    ELSE collide_from(w,
             collide(w, position, disc_pos, height, (i + 1) \div 2,
                     IF i % 2 = 1 THEN -1 ELSE 1),
             disc_pos, height, i + 1)

collides(w, obj) ==
    collide_from(w, obj.position, discretize(obj.position), obj.height, 1)

----------------------------------------------------------------------------
(* World: drawing.  w.raised records an exception a handler would raise    *)
(* (a KeyError or ValueError on a missing key).                            *)

DrawItem(position) == [func |-> "_draw_block", args |-> << position >>]
UndrawItem(position) == [func |-> "_undraw_block", args |-> << position >>]

\* self.vertex_lists[position] = self.batch.add(...): the renderer makes a
\* mesh for the block at the position.
batch_add(w, position) ==
    [w EXCEPT !.vertex_lists = @ \cup {position},
              !.mesh_fault = @ \/ position \in w.vertex_lists
                               \/ position \notin DOMAIN w.blocks]

\* self.vertex_lists.pop(position).delete(): the renderer frees the mesh.
pop_delete(w, position) ==
    [w EXCEPT !.vertex_lists = @ \ {position},
              !.mesh_fault = @ \/ position \notin w.vertex_lists]

_draw_block_always(w, position) == batch_add(w, position)

_draw_block(w, position) ==
    IF position \notin DOMAIN w.blocks \/ position \in w.vertex_lists
    THEN w
    ELSE batch_add(w, position)

_undraw_block(w, position) ==
    IF position \in w.vertex_lists
    THEN pop_delete(w, position)
    ELSE w

draw_block_queued(w, position, urgent) ==
    IF position \notin DOMAIN w.blocks
    THEN [w EXCEPT !.raised = TRUE]
    ELSE [w EXCEPT !.drawn_blocks = (position :> w.blocks[position]) @@ @,
                   !.drawing_queue = Append(@, DrawItem(position)),
                   !.enq_draw = Append(@, DrawItem(position))]

draw_block(w, position, urgent) ==
    IF position \notin DOMAIN w.blocks
    THEN [w EXCEPT !.raised = TRUE]
    ELSE LET w1 == [w EXCEPT !.drawn_blocks =
                        (position :> w.blocks[position]) @@ @]
         IN  IF urgent
             THEN _draw_block(w1, position)
             ELSE [w1 EXCEPT !.drawing_queue = Append(@, DrawItem(position)),
                             !.enq_draw = Append(@, DrawItem(position))]

undraw_block(w, position, urgent) ==
    IF position \notin DOMAIN w.drawn_blocks
    THEN [w EXCEPT !.raised = TRUE]
    ELSE LET w1 == [w EXCEPT !.drawn_blocks =
                        Restrict(@, DOMAIN @ \ {position})]
         IN  IF urgent
             THEN _undraw_block(w1, position)
             ELSE [w1 EXCEPT !.drawing_queue = Append(@, UndrawItem(position)),
                             !.enq_draw = Append(@, UndrawItem(position))]

redraw_neighbor_draw_only(w, neighbor) ==
    IF neighbor \notin DOMAIN w.blocks THEN w
    ELSE IF neighbor \notin DOMAIN w.drawn_blocks /\ exposed(w, neighbor)
    THEN draw_block(w, neighbor, TRUE) ELSE w

redraw_neighbor(w, neighbor) ==
    IF neighbor \notin DOMAIN w.blocks THEN w
    ELSE IF neighbor \in DOMAIN w.drawn_blocks
    THEN IF ~exposed(w, neighbor) THEN undraw_block(w, neighbor, TRUE) ELSE w
    ELSE IF exposed(w, neighbor) THEN draw_block(w, neighbor, TRUE) ELSE w

RECURSIVE redraw_from(_, _, _)
redraw_from(w, position, i) ==
    IF i > 6 THEN w
    ELSE redraw_from(redraw_neighbor(w, neighbors(position)[i]), position, i + 1)

redraw_neighbors(w, position) == redraw_from(w, position, 1)

----------------------------------------------------------------------------
(* World: placing and removing blocks.                                     *)

\* remove_block past its early return: the position is occupied.
delete_block(w, position, urgent) ==
    LET c  == chunk_position(AsReal(position))
        w1 == [w EXCEPT !.blocks = Restrict(@, DOMAIN @ \ {position})]
        w2 == IF c \in DOMAIN w1.chunks /\ Count(w1.chunks[c], position) > 0
              THEN [w1 EXCEPT !.chunks[c] = RemoveFirst(@, position)]
              ELSE [w1 EXCEPT !.raised = TRUE]
    IN  IF urgent
        THEN redraw_neighbors(
                 IF position \in DOMAIN w2.drawn_blocks
                 THEN undraw_block(w2, position, TRUE) ELSE w2,
                 position)
        ELSE w2

remove_block_urgent_only(w, position, urgent) ==
    IF position \notin DOMAIN w.blocks \/ ~urgent THEN w
    ELSE delete_block(w, position, urgent)

remove_block_no_redraw(w, position, urgent) ==
    IF position \notin DOMAIN w.blocks THEN w
    ELSE LET w1 == delete_block(w, position, FALSE)
         IN  IF urgent /\ position \in DOMAIN w1.drawn_blocks
             THEN undraw_block(w1, position, TRUE) ELSE w1

remove_block_unguarded(w, position, urgent) ==
    IF position \in DOMAIN w.blocks THEN delete_block(w, position, urgent)
    ELSE IF urgent THEN redraw_neighbors(w, position) ELSE w

remove_block(w, position, urgent) ==
    IF position \notin DOMAIN w.blocks THEN w
    ELSE delete_block(w, position, urgent)

\* add_block from the assignment to self.blocks on.
insert_block(w, position, block_type, urgent) ==
    LET c  == chunk_position(AsReal(position))
        w2 == [w EXCEPT
                 !.blocks = (position :> block_type) @@ @,
                 !.chunks = IF c \in DOMAIN @
                            THEN [@ EXCEPT ![c] = Append(@, position)]
                            ELSE (c :> << position >>) @@ @]
    IN  IF urgent
        THEN redraw_neighbors(
                 IF exposed(w2, position)
                 THEN draw_block(w2, position, TRUE) ELSE w2,
                 position)
        ELSE w2

add_block_no_remove(w, position, block_type, urgent) ==
    insert_block(w, position, block_type, urgent)

add_block_keep_existing(w, position, block_type, urgent) ==
    IF position \in DOMAIN w.blocks THEN w
    ELSE insert_block(w, position, block_type, urgent)

add_block_remove_as_urgent(w, position, block_type, urgent) ==
    insert_block(IF position \in DOMAIN w.blocks
                 THEN remove_block(w, position, urgent) ELSE w,
                 position, block_type, urgent)

add_block(w, position, block_type, urgent) ==
    insert_block(IF position \in DOMAIN w.blocks
                 THEN remove_block(w, position, TRUE) ELSE w,
                 position, block_type, urgent)

----------------------------------------------------------------------------
(* noise.py.  fbm is a pure function of its arguments; its floating-point  *)
(* value is not computed here but read from the noise field of the run,    *)
(* in units of 1/Scale.  A "flat" field has the same value everywhere, a   *)
(* "rough" one alternates in sign from column to column.                   *)

fbm(field, x, z, smoothness) ==
    IF field.kind = "flat" THEN field.level
    ELSE IF (x + z) % 2 = 0 THEN (field.level * randint_lo) \div smoothness
    ELSE -field.level

----------------------------------------------------------------------------
(* World: terrain generation.                                              *)

GenChunkItem(chunk) ==
    [func |-> "generate_chunk", args |-> << chunk, FALSE >>]
GenColumnItem(x, z, smoothness, mh) ==
    [func |-> "_generate_chunk", args |-> << x, z, smoothness, mh >>]

RECURSIVE add_column(_, _, _, _, _)
add_column(w, x, z, y, top) ==
    IF y > top THEN w
    ELSE add_column(add_block(w, << x, y, z >>, "Grass", FALSE), x, z, y + 1, top)

\* int(height) of _generate_chunk.
int_height(field, x, z, smoothness, mh) ==
    (mh * clamp(0, fbm(field, x, z, smoothness), Scale)) \div Scale

_generate_chunk(w, x, z, smoothness, mh) ==
    add_column(w, x, z, 0, int_height(w.terrain, x, z, smoothness, mh))

\* The columns of a chunk of a World whose CHUNK_SIZE is size, in the order
\* of the two nested loops.
columns_in(size, chunk) ==
    LET dx == chunk[1] * size
        dz == chunk[3] * size
    IN  [i \in 1..(size * size) |->
            << dx + ((i - 1) \div size), dz + ((i - 1) % size) >>]

columns(chunk) == columns_in(CHUNK_SIZE, chunk)

RECURSIVE generate_columns(_, _, _, _, _)
generate_columns(w, cols, i, smoothness, urgent) ==
    IF i > Len(cols) THEN w
    ELSE LET x == cols[i][1]
             z == cols[i][2]
             w1 == IF urgent
                   THEN _generate_chunk(w, x, z, smoothness, max_height)
                   ELSE [w EXCEPT
                           !.generation_queue =
                               Append(@, GenColumnItem(x, z, smoothness, max_height)),
                           !.enq_gen =
                               Append(@, GenColumnItem(x, z, smoothness, max_height))]
         IN  generate_columns(w1, cols, i + 1, smoothness, urgent)

\* random.randint(randint_lo, randint_hi): the value the generator of this
\* run returns when it is called for the given chunk.
randint(field, chunk) ==
    IF field.seed = 0 \/ (chunk[1] + chunk[3]) % 2 = 0
    THEN randint_lo ELSE randint_hi

generate_chunk_again(w, chunk, urgent) ==
    generate_columns([w EXCEPT !.chunks_generated = @ \cup {chunk}],
                     columns(chunk), 1, randint(w.terrain, chunk), urgent)

generate_chunk(w, chunk, urgent) ==
    IF chunk \in w.chunks_generated THEN w
    ELSE generate_columns([w EXCEPT !.chunks_generated = @ \cup {chunk}],
                          columns(chunk), 1, randint(w.terrain, chunk), urgent)

----------------------------------------------------------------------------
(* World: chunk streaming.                                                 *)

chunk_list(w, chunk) ==
    IF chunk \in DOMAIN w.chunks THEN w.chunks[chunk] ELSE << >>

RECURSIVE draw_positions_urgent(_, _, _)
draw_positions_urgent(w, list, i) ==
    IF i > Len(list) THEN w
    ELSE draw_positions_urgent(
             IF list[i] \notin DOMAIN w.drawn_blocks /\ exposed(w, list[i])
             THEN draw_block(w, list[i], TRUE) ELSE w,
             list, i + 1)

RECURSIVE draw_positions(_, _, _)
draw_positions(w, list, i) ==
    IF i > Len(list) THEN w
    ELSE draw_positions(
             IF list[i] \notin DOMAIN w.drawn_blocks /\ exposed(w, list[i])
             THEN draw_block(w, list[i], FALSE) ELSE w,
             list, i + 1)

draw_chunk(w, chunk) ==
    LET w1 == generate_chunk(w, chunk, TRUE)
    IN  draw_positions(w1, chunk_list(w1, chunk), 1)

RECURSIVE undraw_positions(_, _, _)
undraw_positions(w, list, i) ==
    IF i > Len(list) THEN w
    ELSE undraw_positions(
             IF list[i] \in DOMAIN w.drawn_blocks
             THEN undraw_block(w, list[i], FALSE) ELSE w,
             list, i + 1)

undraw_chunk(w, chunk) == undraw_positions(w, chunk_list(w, chunk), 1)

\* float('inf') + d = float('inf')
plus(a, d) == IF a = Inf THEN Inf ELSE a + d

chunks_visible(chunk, n) ==
    { << plus(chunk[1], dx), plus(chunk[2], 0), plus(chunk[3], dz) >> :
        dx \in (-n)..n, dz \in (-n)..n }

sort_key(pos) == pos[1] * pos[1] + pos[2] * pos[2] + pos[3] * pos[3]

\* The orders in which a set can be iterated.
RECURSIVE iteration_orders(_)
iteration_orders(S) ==
    IF S = {} THEN { << >> }
    ELSE UNION { { << e >> \o s : s \in iteration_orders(S \ {e}) } : e \in S }

\* The results sorted(list(S), key=sort_key) can have: the sort is stable,
\* so chunks of equal key keep the order in which the set was iterated.
RECURSIVE sorted_orders(_)
sorted_orders(S) ==
    IF S = {} THEN { << >> }
    ELSE UNION { { << e >> \o s : s \in sorted_orders(S \ {e}) } :
                 e \in { m \in S : \A o \in S : sort_key(m) <= sort_key(o) } }

RECURSIVE undraw_chunks(_, _, _)
undraw_chunks(w, order, i) ==
    IF i > Len(order) THEN w
    ELSE undraw_chunks(undraw_chunk(w, order[i]), order, i + 1)

RECURSIVE draw_chunks(_, _, _)
draw_chunks(w, order, i) ==
    IF i > Len(order) THEN w
    ELSE draw_chunks(draw_chunk(w, order[i]), order, i + 1)

\* The look-ahead requests, dx in the outer loop and dz in the inner one.
look_ahead(new_chunk, n) ==
    [i \in 1..((2 * n + 1) * (2 * n + 1)) |->
        GenChunkItem(<< (new_chunk[1] - n) + ((i - 1) \div (2 * n + 1)),
                        new_chunk[2],
                        (new_chunk[3] - n) + ((i - 1) % (2 * n + 1)) >>)]

\* draw and undraw of change_chunk, for n chunks drawn on each side.
draw(curr_chunk, new_chunk, n) ==
    chunks_visible(new_chunk, n) \ chunks_visible(curr_chunk, n)

undraw_swapped(curr_chunk, new_chunk, n) ==
    chunks_visible(new_chunk, n) \ chunks_visible(curr_chunk, n)

undraw(curr_chunk, new_chunk, n) ==
    chunks_visible(curr_chunk, n) \ chunks_visible(new_chunk, n)

to_draw(w, new_chunk) == draw(w.current_chunk, new_chunk, num_adjacent_drawn)

to_undraw(w, new_chunk) == undraw(w.current_chunk, new_chunk, num_adjacent_drawn)

\* undraw_order and draw_order are the orders in which the two sets are
\* traversed.
change_chunk(w, new_chunk, undraw_order, draw_order) ==
    LET w1 == undraw_chunks(w, undraw_order, 1)
        w2 == draw_chunks(w1, draw_order, 1)
        req == look_ahead(new_chunk, num_adjacent_drawn + gen_margin)
    IN  [w2 EXCEPT !.generation_queue = @ \o req,
                   !.enq_gen = @ \o req,
                   !.current_chunk = new_chunk]

load_chunks_always(w, position, undraw_order, draw_order) ==
    change_chunk(w, chunk_position(position), undraw_order, draw_order)

load_chunks(w, position, undraw_order, draw_order) ==
    LET new_chunk == chunk_position(position)
    IN  IF w.current_chunk # new_chunk
        THEN change_chunk(w, new_chunk, undraw_order, draw_order)
        ELSE w

----------------------------------------------------------------------------
(* World: draining the queues.                                             *)

run_item(w, item) ==
    IF item.func = "_draw_block" THEN _draw_block(w, item.args[1])
    ELSE IF item.func = "_undraw_block" THEN _undraw_block(w, item.args[1])
    ELSE IF item.func = "generate_chunk"
    THEN generate_chunk(w, item.args[1], item.args[2])
    ELSE _generate_chunk(w, item.args[1], item.args[2], item.args[3], item.args[4])

pop_draw_drop(w) ==
    IF w.drawing_queue = << >> THEN w
    ELSE [w EXCEPT !.drawing_queue = Tail(@)]

pop_draw(w) ==
    IF w.drawing_queue = << >> THEN w
    ELSE run_item([w EXCEPT !.drawing_queue = Tail(@),
                            !.executed = Append(@, << "draw", Head(w.drawing_queue) >>)],
                  Head(w.drawing_queue))

pop_gen(w) ==
    IF w.generation_queue = << >> THEN w
    ELSE run_item([w EXCEPT !.generation_queue = Tail(@),
                            !.executed = Append(@, << "gen", Head(w.generation_queue) >>)],
                  Head(w.generation_queue))

RECURSIVE update_gen_first(_, _)
update_gen_first(w, rounds) ==
    IF rounds = 0 THEN w
    ELSE LET w1 == pop_gen(w)
             all_empty == w.generation_queue = << >> /\ w1.drawing_queue = << >>
         IN  IF all_empty THEN w
             ELSE update_gen_first(pop_draw(w1),
                                   IF rounds < 0 THEN rounds ELSE rounds - 1)

RECURSIVE update_until_drawn(_, _)
update_until_drawn(w, rounds) ==
    IF rounds = 0 \/ w.drawing_queue = << >> THEN w
    ELSE update_until_drawn(pop_gen(pop_draw(w)),
                            IF rounds < 0 THEN rounds ELSE rounds - 1)

\* rounds is the number of times the clock test lets the loop body start
\* (-1: it never stops the loop, max_time = float('inf')).  The body visits
\* the drawing queue and then the generation queue.
RECURSIVE update(_, _)
update(w, rounds) ==
    IF rounds = 0 THEN w
    ELSE LET w1 == pop_draw(w)
             all_empty == w.drawing_queue = << >> /\ w1.generation_queue = << >>
         IN  IF all_empty THEN w
             ELSE update(pop_gen(w1), IF rounds < 0 THEN rounds ELSE rounds - 1)

----------------------------------------------------------------------------
(* The state of a World object as a record, and back.                      *)

World ==
    [ blocks |-> blocks, drawn_blocks |-> drawn_blocks,
      vertex_lists |-> vertex_lists, chunks |-> chunks,
      chunks_generated |-> chunks_generated, current_chunk |-> current_chunk,
      drawing_queue |-> drawing_queue, generation_queue |-> generation_queue,
      terrain |-> terrain, enq_draw |-> enqueued.draw, enq_gen |-> enqueued.gen,
      executed |-> executed, raised |-> raised, mesh_fault |-> mesh_fault ]

Becomes(w) ==
    /\ blocks' = w.blocks
    /\ drawn_blocks' = w.drawn_blocks
    /\ vertex_lists' = w.vertex_lists
    /\ chunks' = w.chunks
    /\ chunks_generated' = w.chunks_generated
    /\ current_chunk' = w.current_chunk
    /\ drawing_queue' = w.drawing_queue
    /\ generation_queue' = w.generation_queue
    /\ terrain' = w.terrain
    /\ enqueued' = [draw |-> w.enq_draw, gen |-> w.enq_gen]
    /\ executed' = w.executed
    /\ raised' = w.raised
    /\ mesh_fault' = w.mesh_fault

EmptyMap == [k \in {} |-> "Grass"]

\* World.__init__
Constructed ==
    /\ blocks = EmptyMap
    /\ drawn_blocks = EmptyMap
    /\ vertex_lists = {}
    /\ chunks = EmptyMap
    /\ chunks_generated = {}
    /\ current_chunk = << Inf, Inf, Inf >>
    /\ drawing_queue = << >>
    /\ generation_queue = << >>
    /\ terrain \in Terrains
    /\ enqueued = [draw |-> << >>, gen |-> << >>]
    /\ executed = << >>
    /\ raised = FALSE
    /\ mesh_fault = FALSE
    /\ last_op = NoOp
    /\ pc = "load"
    /\ approx_time_left = 0

Init == Constructed /\ calls_left = MaxCalls

----------------------------------------------------------------------------
(* The calls made on a World: by the mouse handler (add_block,             *)
(* remove_block), by the frame loop (load_chunks, update).                 *)

nb_set(position) == { neighbors(position)[i] : i \in 1..6 }

\* The occupancy and drawn state of the neighbors of a position.
Snapshot(position, urgent) ==
    [ valid |-> TRUE, urgent |-> urgent,
      nb_occupied |-> nb_set(position) \cap DOMAIN blocks,
      nb_drawn |-> nb_set(position) \cap DOMAIN drawn_blocks ]

\* What is recorded of a call: its input, what the position held when it
\* started and, for a clear that directly follows the place of the
\* same position on an empty cell, the urgency of that place and the
\* neighbors as they were before it (for a place: as they are before it).
Call(op, position, block_type, urgent) ==
    [ op |-> op, position |-> position, block |-> block_type, urgent |-> urgent,
      was_occupied |-> position \in DOMAIN blocks,
      old_block |-> IF position \in DOMAIN blocks THEN blocks[position] ELSE "none",
      before_place |->
          IF op = "place" /\ position \notin DOMAIN blocks
          THEN Snapshot(position, urgent)
          ELSE IF op = "clear" /\ last_op.op = "place"
                  /\ last_op.position = position /\ last_op.before_place.valid
          THEN last_op.before_place
          ELSE NoSnapshot,
      changed |-> FALSE, to_draw |-> {}, to_undraw |-> {} ]

\* What is recorded of a load_chunks: whether the chunk changed, and the
\* chunks it had to draw and to undraw; no call but a change of chunk or an
\* edit alters the latter two.
Loaded(position) ==
    LET new_chunk == chunk_position(position)
        changes == current_chunk # new_chunk
    IN  [NoOp EXCEPT !.op = "load", !.position = position, !.changed = changes,
                     !.to_draw = IF changes THEN to_draw(World, new_chunk)
                                 ELSE last_op.to_draw,
                     !.to_undraw = IF changes THEN to_undraw(World, new_chunk)
                                   ELSE last_op.to_undraw]

Drained ==
    [NoOp EXCEPT !.op = "drain", !.to_draw = last_op.to_draw,
                 !.to_undraw = last_op.to_undraw]

Place(position, block_type, urgent) ==
    /\ calls_left > 0
    /\ Becomes(add_block(World, position, block_type, urgent))
    /\ last_op' = Call("place", position, block_type, urgent)
    /\ calls_left' = calls_left - 1
    /\ UNCHANGED << pc, approx_time_left >>

Clear(position, urgent) ==
    /\ calls_left > 0
    /\ Becomes(remove_block(World, position, urgent))
    /\ last_op' = Call("clear", position, "none", urgent)
    /\ calls_left' = calls_left - 1
    /\ UNCHANGED << pc, approx_time_left >>

LoadAround(position) ==
    LET new_chunk == chunk_position(position)
        changes == current_chunk # new_chunk
    IN  /\ changes => calls_left > 0
        /\ \E undraw_order \in iteration_orders(to_undraw(World, new_chunk)) :
           \E draw_order \in sorted_orders(to_draw(World, new_chunk)) :
               Becomes(load_chunks(World, position, undraw_order, draw_order))
        /\ last_op' = Loaded(position)
        /\ calls_left' = IF changes THEN calls_left - 1 ELSE calls_left
        /\ UNCHANGED << pc, approx_time_left >>

Drain(rounds) ==
    /\ Becomes(update(World, rounds))
    /\ last_op' = Drained
    /\ UNCHANGED << calls_left, pc, approx_time_left >>

Next ==
    \/ \E p \in EditPositions, b \in BlockTypes, u \in BOOLEAN : Place(p, b, u)
    \/ \E p \in EditPositions, u \in BOOLEAN : Clear(p, u)
    \/ \E position \in ViewPositions : LoadAround(position)
    \/ \E rounds \in {MaxRounds, -1} : Drain(rounds)

Spec == Init /\ [][Next]_vars

----------------------------------------------------------------------------
(* The calls as game.py makes them: the mouse handler places the player's  *)
(* active block and removes blocks, both with the default urgency.         *)

GameInit == Constructed /\ calls_left = MaxCalls + 1

GameNext ==
    \/ \E p \in EditPositions : Place(p, "Grass", TRUE)
    \/ \E p \in EditPositions : Clear(p, TRUE)
    \/ \E position \in ViewPositions : LoadAround(position)
    \/ \E rounds \in {MaxRounds, -1} : Drain(rounds)

GameSpec == GameInit /\ [][GameNext]_vars

----------------------------------------------------------------------------
(* The frame loop (Game.update), statement by statement: load_chunks, the  *)
(* time left of the frame, update.  The time left is what the clock makes  *)
(* it, counted in rounds of update's loop: none when load_chunks took the  *)
(* frame's time (max(0, ...) = 0: update's loop never starts).  The        *)
(* histories hold what the last load_chunks or update appended and         *)
(* executed.  The viewpoint changes chunk only while at most MaxQueue      *)
(* items are waiting.                                                      *)

FrameLoad(position) ==
    LET new_chunk == chunk_position(position)
        changes == current_chunk # new_chunk
        w0 == [World EXCEPT !.enq_draw = << >>, !.enq_gen = << >>,
                            !.executed = << >>]
    IN  /\ pc = "load"
        /\ changes => Len(drawing_queue) + Len(generation_queue) <= MaxQueue
        /\ \E undraw_order \in iteration_orders(to_undraw(World, new_chunk)) :
           \E draw_order \in sorted_orders(to_draw(World, new_chunk)) :
               Becomes(load_chunks(w0, position, undraw_order, draw_order))
        /\ last_op' = Loaded(position)
        /\ pc' = "time_left"
        /\ UNCHANGED << calls_left, approx_time_left >>

TimeLeft(rounds) ==
    /\ pc = "time_left"
    /\ approx_time_left' = rounds
    /\ pc' = "update"
    /\ UNCHANGED << blocks, drawn_blocks, vertex_lists, chunks, chunks_generated,
                    current_chunk, drawing_queue, generation_queue, terrain,
                    enqueued, executed, last_op, raised, mesh_fault, calls_left >>

NoTimeLeft == TimeLeft(0)

SomeTimeLeft == \E rounds \in 1..MaxRounds : TimeLeft(rounds)

FrameUpdate ==
    LET w0 == [World EXCEPT !.enq_draw = << >>, !.enq_gen = << >>,
                            !.executed = << >>]
    IN  /\ pc = "update"
        /\ Becomes(update(w0, approx_time_left))
        /\ last_op' = Drained
        /\ pc' = "load"
        /\ UNCHANGED << calls_left, approx_time_left >>

FrameInit == Constructed /\ calls_left = 0

FrameNext ==
    \/ \E position \in ViewPositions : FrameLoad(position)
    \/ NoTimeLeft
    \/ SomeTimeLeft
    \/ FrameUpdate

\* The frame loop runs forever: it always comes back to computing the time
\* left, and goes on from there.
LiveSpec ==
    /\ FrameInit /\ [][FrameNext]_vars
    /\ []<>(pc = "time_left")
    /\ WF_vars(NoTimeLeft \/ SomeTimeLeft)

----------------------------------------------------------------------------
(* change_chunk as a function of the two chunks and of the number of       *)
(* chunks drawn on each side: the two sets it computes and the order in    *)
(* which it draws.  What it draws into the world is left out here; the     *)
(* viewpoint moves between the chunks of ChunkCoords.                      *)

MaxRadius == 1

ChunkCoords == 0..1

ChangeChunk(new_chunk, n) ==
    /\ new_chunk # current_chunk
    /\ \E draw_order \in sorted_orders(draw(current_chunk, new_chunk, n)) :
           last_op' = [ op |-> "change_chunk", curr_chunk |-> current_chunk,
                        new_chunk |-> new_chunk, n |-> n,
                        draw |-> draw(current_chunk, new_chunk, n),
                        undraw |-> undraw(current_chunk, new_chunk, n),
                        draw_order |-> draw_order ]
    /\ current_chunk' = new_chunk
    /\ UNCHANGED << blocks, drawn_blocks, vertex_lists, chunks, chunks_generated,
                    drawing_queue, generation_queue, terrain, enqueued,
                    executed, raised, mesh_fault, calls_left, pc, approx_time_left >>

ChunkInit == Constructed /\ calls_left = 0

ChunkNext ==
    \E x \in ChunkCoords, z \in ChunkCoords, n \in 0..MaxRadius :
        ChangeChunk(<< x, 0, z >>, n)

ChunkSpec == ChunkInit /\ [][ChunkNext]_vars

----------------------------------------------------------------------------
(* Direct calls of two further methods of World, generate_chunk and        *)
(* undraw_block, among the edits of the mouse handler and update.          *)

ViewChunks == { chunk_position(position) : position \in ViewPositions }

\* The column requests of a chunk that wait in the generation queue.
pending(chunk) ==
    { i \in 1..Len(generation_queue) :
        /\ generation_queue[i].func = "_generate_chunk"
        /\ \E k \in 1..(CHUNK_SIZE * CHUNK_SIZE) :
               /\ generation_queue[i].args[1] = columns(chunk)[k][1]
               /\ generation_queue[i].args[2] = columns(chunk)[k][2] }

Generate(chunk, urgent) ==
    /\ calls_left > 0
    /\ Becomes(generate_chunk(World, chunk, urgent))
    /\ last_op' = [ op |-> "generate", chunk |-> chunk, urgent |-> urgent,
                    was_generated |-> chunk \in chunks_generated,
                    was_pending |-> pending(chunk) # {}, to_draw |-> {},
                    to_undraw |-> {} ]
    /\ calls_left' = calls_left - 1
    /\ UNCHANGED << pc, approx_time_left >>

Undraw(position, urgent) ==
    /\ calls_left > 0
    /\ Becomes(undraw_block(World, position, urgent))
    /\ last_op' = [ op |-> "undraw", position |-> position, urgent |-> urgent,
                    was_drawn |-> position \in DOMAIN drawn_blocks,
                    to_draw |-> {}, to_undraw |-> {} ]
    /\ calls_left' = calls_left - 1
    /\ UNCHANGED << pc, approx_time_left >>

ApiInit == Constructed /\ calls_left = MaxCalls + 1

ApiNext ==
    \/ \E p \in EditPositions : Place(p, "Grass", TRUE)
    \/ \E p \in EditPositions : Clear(p, TRUE)
    \/ \E chunk \in ViewChunks, u \in BOOLEAN : Generate(chunk, u)
    \/ \E p \in EditPositions, u \in BOOLEAN : Undraw(p, u)
    \/ \E rounds \in {MaxRounds, -1} : Drain(rounds)

ApiSpec == ApiInit /\ [][ApiNext]_vars

----------------------------------------------------------------------------
(* collides as a function of the player and of the blocks: the micro-step  *)
(* of Game.update moves the player, asks collides for the position without *)
(* collisions and makes it the player's position.  The blocks are those of *)
(* a world in which some of the edit positions have been filled; the       *)
(* player's coordinates are at, just inside, on and beyond the overlap     *)
(* allowed around the cells of ActorCells, and half-way between two cells. *)

MaxActorHeight == 2

ActorCells == 0..1

ActorOffsets ==
    { -(Scale \div 2), -(max_overlap + 1), 0, max_overlap, 3 * max_overlap }

ActorCoords == { c * Scale + f : c \in ActorCells, f \in ActorOffsets }

ActorPositions == ActorCoords \X ActorCoords \X ActorCoords

\* The world after add_block of a Grass block at every position of S.
RECURSIVE filled(_, _)
filled(w, S) ==
    IF S = {} THEN w
    ELSE LET position == CHOOSE position \in S : TRUE
         IN  filled(add_block(w, position, "Grass", TRUE), S \ {position})

Moved(position, height) ==
    [op |-> "move", position |-> position, height |-> height]

\* A new World, before anything is asked of it.
BlankWorld ==
    [ blocks |-> EmptyMap, chunks |-> EmptyMap, drawn_blocks |-> EmptyMap,
      vertex_lists |-> {}, raised |-> FALSE, mesh_fault |-> FALSE ]

CollideInit ==
    /\ \E S \in SUBSET EditPositions :
           LET w == filled(BlankWorld, S)
           IN  /\ blocks = w.blocks
               /\ chunks = w.chunks
               /\ drawn_blocks = w.drawn_blocks
               /\ vertex_lists = w.vertex_lists
    /\ chunks_generated = {}
    /\ current_chunk = << Inf, Inf, Inf >>
    /\ drawing_queue = << >>
    /\ generation_queue = << >>
    /\ terrain \in Terrains
    /\ enqueued = [draw |-> << >>, gen |-> << >>]
    /\ executed = << >>
    /\ raised = FALSE
    /\ mesh_fault = FALSE
    /\ \E position \in ActorPositions, height \in 0..MaxActorHeight :
           last_op = Moved(position, height)
    /\ pc = "load"
    /\ approx_time_left = 0
    /\ calls_left = 0

\* new_pos = self.world.collides(self.player)
Collide ==
    /\ last_op.op = "move"
    /\ last_op' = [ op |-> "collides", position |-> last_op.position,
                    height |-> last_op.height,
                    result |-> collides(World, last_op) ]
    /\ UNCHANGED << blocks, drawn_blocks, vertex_lists, chunks, chunks_generated,
                    current_chunk, drawing_queue, generation_queue, terrain,
                    enqueued, executed, raised, mesh_fault, calls_left, pc,
                    approx_time_left >>

\* self.player.position = new_pos
Adopt ==
    /\ last_op.op = "collides"
    /\ last_op' = Moved(last_op.result, last_op.height)
    /\ UNCHANGED << blocks, drawn_blocks, vertex_lists, chunks, chunks_generated,
                    current_chunk, drawing_queue, generation_queue, terrain,
                    enqueued, executed, raised, mesh_fault, calls_left, pc,
                    approx_time_left >>

CollideNext == Collide \/ Adopt

CollideSpec == CollideInit /\ [][CollideNext]_vars

----------------------------------------------------------------------------
(* The world as the chunk streamer alone changes it: the viewpoint moves   *)
(* from chunk to chunk and back, and update runs in between; nothing is    *)
(* placed or removed by hand.                                              *)

StreamInit == Constructed /\ calls_left = MaxCalls

StreamNext ==
    \/ \E position \in ViewPositions : LoadAround(position)
    \/ \E rounds \in {1, -1} : Drain(rounds)

StreamSpec == StreamInit /\ [][StreamNext]_vars

----------------------------------------------------------------------------
(* generate_chunk as a function of the chunk, of CHUNK_SIZE and of the     *)
(* noise field: the positions at which it places a block, at once or       *)
(* through its column work.  The noise takes values below, in and above    *)
(* the range clamp lets through.                                           *)

MaxChunkSize == 2

ChunkRange == (-2)..1

NoiseLevels ==
    { -Scale, -1, 0, 1, Scale \div max_height, Scale - 1, Scale, 2 * Scale }

NoiseFields ==
    { [kind |-> k, level |-> l, seed |-> s] :
        k \in {"flat", "rough"}, l \in NoiseLevels, s \in {0, 1} }

\* The positions _generate_chunk passes to add_block for the columns of a
\* chunk.
generated(field, size, chunk) ==
    UNION { { << columns_in(size, chunk)[i][1], y, columns_in(size, chunk)[i][2] >> :
                y \in 0..int_height(field, columns_in(size, chunk)[i][1],
                                    columns_in(size, chunk)[i][2],
                                    randint(field, chunk), max_height) } :
            i \in 1..(size * size) }

TerrainInit ==
    /\ blocks = EmptyMap
    /\ drawn_blocks = EmptyMap
    /\ vertex_lists = {}
    /\ chunks = EmptyMap
    /\ chunks_generated = {}
    /\ current_chunk = << Inf, Inf, Inf >>
    /\ drawing_queue = << >>
    /\ generation_queue = << >>
    /\ terrain \in NoiseFields
    /\ enqueued = [draw |-> << >>, gen |-> << >>]
    /\ executed = << >>
    /\ raised = FALSE
    /\ mesh_fault = FALSE
    /\ last_op = NoOp
    /\ pc = "load"
    /\ approx_time_left = 0
    /\ calls_left = 0

GenerateTerrain(chunk, size) ==
    /\ last_op' = [ op |-> "terrain", chunk |-> chunk, size |-> size,
                    placed |-> generated(terrain, size, chunk),
                    chunks |-> { chunk_position_in(size, AsReal(p)) :
                                   p \in generated(terrain, size, chunk) } ]
    /\ UNCHANGED << blocks, drawn_blocks, vertex_lists, chunks, chunks_generated,
                    current_chunk, drawing_queue, generation_queue, terrain,
                    enqueued, executed, raised, mesh_fault, calls_left, pc,
                    approx_time_left >>

TerrainNext ==
    \E cx \in ChunkRange, cz \in ChunkRange, size \in 1..MaxChunkSize :
        GenerateTerrain(<< cx, 0, cz >>, size)

TerrainSpec == TerrainInit /\ [][TerrainNext]_vars

----------------------------------------------------------------------------
(* Properties.                                                             *)

\* C1: a position is listed in the chunk index exactly once, under its own
\* chunk, iff it is a key of blocks; other positions are listed nowhere.
C1_ChunkIndexMatchesBlocks ==
    /\ \A p \in DOMAIN blocks :
          /\ chunk_position(AsReal(p)) \in DOMAIN chunks
          /\ Count(chunks[chunk_position(AsReal(p))], p) = 1
    /\ \A c \in DOMAIN chunks : \A i \in 1..Len(chunks[c]) :
          /\ chunks[c][i] \in DOMAIN blocks
          /\ chunk_position(AsReal(chunks[c][i])) = c

\* A block was just removed from a column that still lists placed and
\* generated blocks.
C1_Witness ==
    /\ last_op.op = "clear" /\ last_op.was_occupied
    /\ \E c \in DOMAIN chunks : Len(chunks[c]) >= 2

\* C2: every drawn position is occupied.
C2_DrawnSubsetOfBlocks == DOMAIN drawn_blocks \subseteq DOMAIN blocks

\* C3: right after place(p, b) the position is occupied and holds b.
C3_PlaceStores ==
    last_op.op = "place" =>
        /\ occupied(World, AsReal(last_op.position))
        /\ blocks[last_op.position] = last_op.block

\* A non-urgent place on a position that held a block of another type.
C3_Witness ==
    /\ last_op.op = "place" /\ ~last_op.urgent
    /\ last_op.old_block = "Grass" /\ last_op.block = "Sand"
    /\ last_op.position \in DOMAIN blocks

\* C4: right after clear(p) the position is not occupied.
C4_ClearEmpties ==
    last_op.op = "clear" => ~occupied(World, AsReal(last_op.position))

\* A non-urgent clear of an occupied position.
C4_Witness ==
    last_op.op = "clear" /\ last_op.was_occupied /\ ~last_op.urgent

Reconciled(position) ==
    \A n \in nb_set(position) \cap DOMAIN blocks :
        n \in DOMAIN drawn_blocks <=> exposed(World, n)

RoundTrip ==
    /\ last_op.op = "clear" /\ last_op.urgent
    /\ last_op.before_place.valid /\ last_op.before_place.urgent

C7_DrawnHaveMesh ==
    drawing_queue = << >> => DOMAIN drawn_blocks \subseteq vertex_lists

\* C8: when the build queue is empty no position outside the drawn set, and
\* no unoccupied position, holds a live mesh.
C8_MeshOnlyOnDrawn ==
    drawing_queue = << >> =>
        vertex_lists \subseteq (DOMAIN drawn_blocks \cap DOMAIN blocks)

----------------------------------------------------------------------------
(* Queues.                                                                 *)

RECURSIVE Of(_, _)
\* The items of a log of << queue, item >> pairs that belong to one queue.
Of(log, queue) ==
    IF log = << >> THEN << >>
    ELSE IF Head(log)[1] = queue THEN << Head(log)[2] >> \o Of(Tail(log), queue)
    ELSE Of(Tail(log), queue)

InQueue(item, queue) == \E i \in 1..Len(queue) : queue[i] = item

\* Every item appended to a queue has been executed or is still waiting,
\* in the order of the appends.
Fifo ==
    /\ enqueued.draw = Of(executed, "draw") \o drawing_queue
    /\ enqueued.gen = Of(executed, "gen") \o generation_queue

\* What a step has added to the log of executed items.
Ran == SubSeq(executed', Len(executed) + 1, Len(executed'))

\* The items a drain executes come in rounds, the build queue's head first
\* and then the generation queue's: a round runs no generation item only
\* when that queue is empty, and no build item only when that one is.
InRounds ==
    /\ Ran # << >> /\ Ran[1][1] = "gen" => drawing_queue = << >>
    /\ Ran # << >> /\ Ran[Len(Ran)][1] = "draw" => generation_queue' = << >>
    /\ \A i \in 1..(Len(Ran) - 1) :
          /\ Ran[i][1] = "draw" /\ Ran[i + 1][1] = "draw" =>
                 \A j \in (i + 1)..Len(Ran) : Ran[j][1] = "draw"
          /\ Ran[i][1] = "gen" /\ Ran[i + 1][1] = "gen" =>
                 \A j \in (i + 1)..Len(Ran) : Ran[j][1] = "gen"

\* C10: a drain executes in rounds, build queue first, and over any number
\* of drains each queue's items execute in the order they were appended.
C10_RoundRobinFifo == []Fifo /\ [][last_op'.op = "drain" => InRounds]_vars

\* The chunks within n of a viewpoint.
Near(n) ==
    UNION { chunks_visible(chunk_position(position), n) : position \in ViewPositions }

\* What can wait in the build queue: the blocks of the chunks in view.
DrawItems ==
    LET tops == { (max_height * clamp(0, t.level, Scale)) \div Scale : t \in Terrains }
        cells == { << c, y >> \in (1..(CHUNK_SIZE * CHUNK_SIZE)) \X (0..max_height) :
                      \E top \in tops : y <= top }
        here == { << columns(chunk)[c[1]][1], c[2], columns(chunk)[c[1]][2] >> :
                     chunk \in Near(num_adjacent_drawn), c \in cells }
    IN  { DrawItem(position) : position \in here }
        \cup { UndrawItem(position) : position \in here }

\* What can wait in the generation queue: the chunks of the look-ahead and
\* their columns.
GenItems ==
    LET ahead == Near(num_adjacent_drawn + gen_margin)
    IN  { GenChunkItem(chunk) : chunk \in ahead }
        \cup { GenColumnItem(columns(chunk)[i][1], columns(chunk)[i][2],
                             randint(t, chunk), max_height) :
                  chunk \in ahead, i \in 1..(CHUNK_SIZE * CHUNK_SIZE), t \in Terrains }

\* The queues hold nothing else.
Known ==
    /\ \A i \in 1..Len(drawing_queue) : drawing_queue[i] \in DrawItems
    /\ \A i \in 1..Len(generation_queue) : generation_queue[i] \in GenItems

\* A step removes from a queue exactly the items it executes.
Conserved ==
    pc # "time_left" =>
    /\ drawing_queue \o enqueued'.draw = Of(executed', "draw") \o drawing_queue'
    /\ generation_queue \o enqueued'.gen = Of(executed', "gen") \o generation_queue'

\* Every item that waits in a queue is eventually executed.
AllExecuted ==
    /\ \A item \in DrawItems :
          InQueue(item, drawing_queue) ~> InQueue(<< "draw", item >>, executed)
    /\ \A item \in GenItems :
          InQueue(item, generation_queue) ~> InQueue(<< "gen", item >>, executed)

C10_Witness ==
    /\ last_op.op = "drain"
    /\ \E i \in 1..Len(executed) : executed[i][1] = "draw"
    /\ \E i \in 1..Len(executed) :
          executed[i][1] = "gen" /\ executed[i][2].func = "_generate_chunk"
    /\ generation_queue # << >>

----------------------------------------------------------------------------
(* The chunk diff and the drawing order of change_chunk.                   *)

\* The squared distance between two chunks.
dist2(a, b) ==
    (a[1] - b[1]) * (a[1] - b[1]) + (a[2] - b[2]) * (a[2] - b[2])
        + (a[3] - b[3]) * (a[3] - b[3])

\* C11: whatever the current chunk and the new chunk (not only a new chunk
\* at the origin), change_chunk draws the chunks of its draw set in
\* ascending order of their squared distance from the new chunk.
C11_DrawnInsideOut ==
    last_op.op = "change_chunk" =>
        \A i \in 1..Len(last_op.draw_order) : \A j \in i..Len(last_op.draw_order) :
            dist2(last_op.draw_order[i], last_op.new_chunk)
                <= dist2(last_op.draw_order[j], last_op.new_chunk)

\* The square of side 2n + 1 at height 0 centred on a chunk.
around(c, n) == { << c[1] + dx, 0, c[3] + dz >> : dx \in (-n)..n, dz \in (-n)..n }

\* C12: for every current chunk, new chunk and radius, the draw set and the
\* undraw set are disjoint, the draw set with the square around the
\* current chunk covers the square around the new chunk, and the undraw set
\* with the square around the new chunk covers the square around the
\* current chunk.
C12_DiffPartitions ==
    (last_op.op = "change_chunk" /\ last_op.curr_chunk # << Inf, Inf, Inf >>) =>
        /\ last_op.draw \cap last_op.undraw = {}
        /\ around(last_op.new_chunk, last_op.n)
               \subseteq (last_op.draw \cup around(last_op.curr_chunk, last_op.n))
        /\ around(last_op.curr_chunk, last_op.n)
               \subseteq (last_op.undraw \cup around(last_op.new_chunk, last_op.n))

\* A transition between two overlapping squares: both sets are non-empty and
\* some chunk stays drawn.
C12_Witness ==
    /\ last_op.op = "change_chunk"
    /\ last_op.curr_chunk # << Inf, Inf, Inf >>
    /\ last_op.n = MaxRadius
    /\ last_op.draw # {} /\ last_op.undraw # {}
    /\ around(last_op.new_chunk, last_op.n)
           \cap around(last_op.curr_chunk, last_op.n) # {}
    /\ last_op.new_chunk[1] # last_op.curr_chunk[1]
    /\ last_op.new_chunk[3] # last_op.curr_chunk[3]

----------------------------------------------------------------------------
(* Repeated and absent requests.                                           *)

\* C13: generate_chunk is idempotent: a call for a chunk that was already
\* requested, whatever the urgency of the two calls and whether or not the
\* column work of the first one is still waiting in the generation queue,
\* changes nothing: blocks, chunk index, drawn set, generated chunks and
\* both queues stay as they are.
C13_GenerateTwiceChangesNothing ==
    [][ (last_op'.op = "generate" /\ last_op'.was_generated) =>
            UNCHANGED << blocks, chunks, drawn_blocks, chunks_generated,
                         drawing_queue, generation_queue >> ]_vars

\* An urgent second call while the columns of a non-urgent first call wait.
C13_Witness ==
    /\ last_op.op = "generate"
    /\ last_op.was_generated /\ last_op.was_pending /\ last_op.urgent
    /\ pending(last_op.chunk) # {}

\* C15: undraw_block for a position that is not in the drawn set, urgent or
\* not, is a no-op: it raises no error and leaves the drawn set, the live
\* meshes and both queues unchanged.
C15_UndrawAbsentIsNoOp ==
    [][ (last_op'.op = "undraw" /\ ~last_op'.was_drawn) =>
            /\ raised' = raised
            /\ UNCHANGED << drawn_blocks, vertex_lists,
                            drawing_queue, generation_queue >> ]_vars

\* C16: remove_block of an unoccupied position, urgent or not, raises no
\* error and leaves the whole state of the world unchanged.
C16_ClearAbsentChangesNothing ==
    [][ (last_op'.op = "clear" /\ ~last_op'.was_occupied) =>
            /\ raised' = raised
            /\ UNCHANGED << blocks, chunks, drawn_blocks, vertex_lists,
                            chunks_generated, current_chunk,
                            drawing_queue, generation_queue >> ]_vars

\* An urgent clear of an empty cell next to an exposed block that is not
\* drawn: a reconciliation of the neighbors would have drawn it.
C16_Witness ==
    /\ last_op.op = "clear" /\ ~last_op.was_occupied /\ last_op.urgent
    /\ \E n \in nb_set(last_op.position) \cap DOMAIN blocks :
           exposed(World, n) /\ n \notin DOMAIN drawn_blocks

----------------------------------------------------------------------------
(* Placing.                                                                *)

\* The fields of the world in the next state are those of w.
SameWorld(w) ==
    /\ blocks' = w.blocks
    /\ chunks' = w.chunks
    /\ drawn_blocks' = w.drawn_blocks
    /\ vertex_lists' = w.vertex_lists
    /\ drawing_queue' = w.drawing_queue
    /\ generation_queue' = w.generation_queue

\* C14: add_block on an occupied position behaves as remove_block of the
\* position with the default urgency followed by add_block, with the
\* caller's urgency, on the then empty position: the same blocks, chunk
\* index, drawn set, live meshes and queues, and no error.
C14_PlaceOnOccupiedIsClearThenPlace ==
    [][ (last_op'.op = "place" /\ last_op'.was_occupied) =>
            LET cleared == remove_block(World, last_op'.position, TRUE)
            IN  /\ last_op'.position \notin DOMAIN cleared.blocks
                /\ SameWorld(add_block(cleared, last_op'.position,
                                       last_op'.block, last_op'.urgent))
                /\ ~raised' ]_vars

\* A non-urgent place of another block type on an occupied position with an
\* occupied neighbor: the new block is not drawn.
C14_Witness ==
    /\ last_op.op = "place" /\ last_op.was_occupied /\ ~last_op.urgent
    /\ last_op.old_block # last_op.block
    /\ last_op.position \notin DOMAIN drawn_blocks
    /\ nb_set(last_op.position) \cap DOMAIN blocks # {}

Origin == << 0, 0, 0 >>

\* A place of a block at the origin, with the default urgency, into an
\* empty store with empty queues.
FirstPlaceAtOrigin ==
    /\ blocks = EmptyMap /\ drawing_queue = << >> /\ generation_queue = << >>
    /\ last_op'.op = "place" /\ last_op'.position = Origin /\ last_op'.urgent

\* C17: from an empty store with empty queues, add_block at (0, 0, 0) with
\* the default urgency leaves the block exposed and leaves the drawing
\* queue holding exactly one item, the draw of (0, 0, 0).
C17_FirstPlaceQueuesOneDraw ==
    [][ FirstPlaceAtOrigin =>
            /\ exposed([blocks |-> blocks'], Origin)
            /\ drawing_queue' = << DrawItem(Origin) >> ]_vars

\* C17, as the code has it: the block is exposed and is drawn at once: it
\* is in the drawn set with a live mesh, and the drawing queue stays empty.
C17_FirstPlaceDrawsAtOnce ==
    [][ FirstPlaceAtOrigin =>
            /\ exposed([blocks |-> blocks'], Origin)
            /\ Origin \in DOMAIN drawn_blocks'
            /\ Origin \in vertex_lists'
            /\ drawing_queue' = << >> ]_vars

C17_Witness ==
    /\ last_op.op = "place" /\ last_op.position = Origin /\ last_op.urgent
    /\ ~last_op.was_occupied
    /\ DOMAIN blocks = {Origin}
    /\ enqueued = [draw |-> << >>, gen |-> << >>]
    /\ calls_left = MaxCalls - 1

----------------------------------------------------------------------------
(* Streaming.                                                              *)

\* C19: load_chunks changes chunk exactly when the chunk of the position is
\* not the current chunk (so always on the first call, from the sentinel);
\* afterwards the current chunk is the chunk of the position; and a call
\* for a position in the current chunk leaves blocks, chunk index, drawn
\* set, generated chunks, live meshes and both queues unchanged.
C19_LoadChangesChunkIffNew ==
    [][ last_op'.op = "load" =>
            LET new_chunk == chunk_position(last_op'.position)
                req == look_ahead(new_chunk, num_adjacent_drawn + gen_margin)
            IN  /\ current_chunk' = new_chunk
                /\ current_chunk = new_chunk =>
                       UNCHANGED << blocks, chunks, drawn_blocks, vertex_lists,
                                    chunks_generated, drawing_queue,
                                    generation_queue >>
                /\ current_chunk # new_chunk =>
                       /\ generation_queue' = generation_queue \o req
                       /\ to_draw(World, new_chunk) \subseteq chunks_generated'
                /\ current_chunk = << Inf, Inf, Inf >> =>
                       generation_queue' = generation_queue \o req ]_vars

\* A call for a position in the current chunk while work is waiting in both
\* queues.
C19_Witness ==
    /\ last_op.op = "load" /\ ~last_op.changed
    /\ current_chunk = chunk_position(last_op.position)
    /\ drawing_queue # << >> /\ generation_queue # << >>

\* C20: once change_chunk has run and the queues have been drained until
\* both are empty, every occupied and exposed position of every chunk the
\* change had to draw is in the drawn set, also when such a chunk had been
\* marked generated by an earlier look-ahead request whose column work was
\* still waiting in the generation queue.
C20_DrawnOnceDrained ==
    (last_op.op = "drain" /\ drawing_queue = << >> /\ generation_queue = << >>) =>
        \A c \in last_op.to_draw : \A p \in DOMAIN blocks :
            (chunk_position(AsReal(p)) = c /\ exposed(World, p))
                => p \in DOMAIN drawn_blocks

----------------------------------------------------------------------------
(* Collisions.                                                             *)

\* How far a coordinate lies beyond the centre of the cell of the position
\* the player was moved to, along an axis and in a direction.
Overlap(coordinate, axis, direction) ==
    (coordinate - discretize(last_op.position)[axis] * Scale) * direction

\* Some of the height cells of the player's column, moved by one cell along
\* the axis in the direction, holds a block.
Blocked(axis, direction) ==
    \E dy \in 0..(last_op.height - 1) :
        LET d == discretize(last_op.position)
            c == [ [d EXCEPT ![axis] = @ + direction] EXCEPT ![2] = @ - dy ]
        IN  c \in DOMAIN blocks

\* C18: for every position of the player (in fixed point), every height and
\* every configuration of blocks, and for each axis and direction: if one of
\* the height cells of the player's column (the discretized cell and those
\* below it) moved by one cell along the axis in the direction is solid, the
\* returned coordinate overlaps past the centre of the discretized cell in
\* that direction by at most max_overlap (0.1).
C18_PenetrationBounded ==
    last_op.op = "collides" =>
        \A axis \in 1..3 : \A direction \in {-1, 1} :
            Blocked(axis, direction) =>
                Overlap(last_op.result[axis], axis, direction) <= max_overlap

\* The player is pushed back by a block that is beside the lower cells of
\* the column only.
C18_Witness ==
    /\ last_op.op = "collides"
    /\ \E axis \in 1..3 : \E direction \in {-1, 1} :
           /\ Blocked(axis, direction)
           /\ Overlap(last_op.position[axis], axis, direction) > max_overlap
           /\ Overlap(last_op.result[axis], axis, direction) = max_overlap
           /\ LET d == discretize(last_op.position)
              IN  [d EXCEPT ![axis] = @ + direction] \notin DOMAIN blocks

----------------------------------------------------------------------------
(* Culling and terrain.                                                    *)

\* C21: in every reachable state every position of the drawn set is
\* exposed: it has at least one unoccupied face neighbor.  This includes a
\* block drawn before the terrain beside it was placed non-urgently.
C21_DrawnAreExposed ==
    \A p \in DOMAIN drawn_blocks : exposed(World, p)

\* C23: generate_chunk, run at once or through its queued column work, from
\* any reachable state (also one where a position it generates holds a
\* drawn block placed by hand), leaves the drawn set and the live meshes
\* unchanged and appends nothing to the drawing queue.
C23_GenerationDrawsNothing ==
    [][ last_op'.op = "generate" =>
            UNCHANGED << drawn_blocks, vertex_lists, drawing_queue >> ]_vars

----------------------------------------------------------------------------
(* Draining without a time limit.                                          *)

\* The items update can execute from a state: those waiting, and for every
\* waiting request to generate a chunk the column work it appends.
WorkBound ==
    Len(drawing_queue)
        + Len(generation_queue) * (1 + CHUNK_SIZE * CHUNK_SIZE)

\* C25: from every reachable state update(float('inf')) terminates and
\* returns with the drawing queue and the generation queue empty, having
\* executed finitely many items: the waiting ones and the column work the
\* waiting generation requests append.
C25_UnboundedDrainEmpties ==
    LET w == update(World, -1)
    IN  /\ w.drawing_queue = << >>
        /\ w.generation_queue = << >>
        /\ Len(w.executed) - Len(executed) <= WorkBound

\* The start-up drain: after the first load_chunks, a drain has executed
\* every request ever appended, column work of the look-ahead included, and
\* the queues are empty.
C25_Witness ==
    /\ last_op.op = "drain"
    /\ calls_left = MaxCalls - 1
    /\ drawing_queue = << >> /\ generation_queue = << >>
    /\ \E i \in 1..Len(enqueued.gen) : enqueued.gen[i].func = "_generate_chunk"
    /\ Len(executed) = Len(enqueued.draw) + Len(enqueued.gen)
    /\ Len(executed) > 2 * MaxRounds

----------------------------------------------------------------------------
(* Meshes under streaming.                                                 *)

\* C26: when positions are drawn and undrawn by the chunk streamer only
\* (non-urgently, moving away and back any number of times, with drains in
\* between), then whenever the drawing queue is empty a position holds a
\* live mesh exactly if it is in the drawn set.
C26_MeshIffDrawnWhenDrained ==
    drawing_queue = << >> => vertex_lists = DOMAIN drawn_blocks

\* The viewpoint went away and came back: the requests draw, undraw, draw
\* of one position were executed in this order, and its mesh is live.
C26_Witness ==
    /\ drawing_queue = << >>
    /\ \E p \in DOMAIN drawn_blocks :
           /\ p \in vertex_lists
           /\ \E i, j, k \in 1..Len(executed) :
                  /\ i < j /\ j < k
                  /\ executed[i] = << "draw", DrawItem(p) >>
                  /\ executed[j] = << "draw", UndrawItem(p) >>
                  /\ executed[k] = << "draw", DrawItem(p) >>

----------------------------------------------------------------------------
(* Undrawing the chunks left behind.                                       *)

\* The positions of the chunks of a set.
In(cs) == { p \in DOMAIN blocks \cup DOMAIN drawn_blocks \cup vertex_lists :
              chunk_position(AsReal(p)) \in cs }

\* C22: when change_chunk returns, whatever the current and the new chunk
\* (also when a chunk to draw is next to a chunk to undraw), no position
\* of a chunk to undraw is in the drawn set; and once the drawing queue has
\* been drained, none of them holds a live mesh.
C22_LeftChunksUndrawn ==
    /\ []( (last_op.op = "load" /\ last_op.changed) =>
              In(last_op.to_undraw) \cap DOMAIN drawn_blocks = {} )
    /\ []( (last_op.op = "drain" /\ drawing_queue = << >>) =>
              In(last_op.to_undraw) \cap vertex_lists = {} )

----------------------------------------------------------------------------
(* The shape of generated terrain.                                         *)

\* The horizontal extent of the chunk generated last, along x and along z.
ExtentX ==
    (last_op.chunk[1] * last_op.size)
        ..(last_op.chunk[1] * last_op.size + last_op.size - 1)
ExtentZ ==
    (last_op.chunk[3] * last_op.size)
        ..(last_op.chunk[3] * last_op.size + last_op.size - 1)

\* The heights at which a column was given a block.
Run(x, z) == { p[2] : p \in { q \in last_op.placed : q[1] = x /\ q[3] = z } }

----------------------------------------------------------------------------
(* The renderer.                                                           *)

\* C27: in every reachable state a position holds at most one live mesh: a
\* mesh is never asked for at a position that holds a live one or holds no
\* block, and a mesh is never deleted at a position that holds none, so the
\* requests and deletions of a position alternate, starting with a request.
C27_MeshesAlternate ==
    /\ ~mesh_fault
    /\ IsFiniteSet(vertex_lists)

\* A position was given a mesh, lost it and was given one again: the
\* queued requests draw, undraw and draw of the position were executed in
\* this order, and its mesh is live.
C27_Witness ==
    \E p \in vertex_lists :
        \E j \in 1..Len(executed) :
            /\ executed[j] = << "draw", UndrawItem(p) >>
            /\ \E i \in 1..(j - 1) : executed[i] = << "draw", DrawItem(p) >>
            /\ \E k \in (j + 1)..Len(executed) :
                   executed[k] = << "draw", DrawItem(p) >>

====
